---- MODULE Spec2Model ----
(***************************************************************************)
(* QueryTextEditor (jupyterlab_bigquery, query_text_editor.tsx): the job   *)
(* lifecycle of the submit/cancel button, the debounced dry-run validator  *)
(* and the diagnostic parser, as one state machine.                        *)
(*                                                                         *)
(* One step of the model is one JavaScript task: a click handler, a keyup  *)
(* handler, a timer callback or an onUpdate callback of the polling        *)
(* client.  The polling client (PagedService / PagedJob) and the result    *)
(* store reducers are collaborators whose code is not in the source file;  *)
(* they are modelled from their contract.                                  *)
(***************************************************************************)
EXTENDS Integers, Sequences, FiniteSets, TLC

(***************************************************************************)
(* Bounds of the model.                                                    *)
(***************************************************************************)
MaxInputs == 3        \* user inputs (submits and edits) in one behaviour
MaxPages == 1         \* Pending (page) updates delivered in one behaviour

(***************************************************************************)
(* Strings are sequences of one-character strings.  The operators below    *)
(* are the JavaScript String methods the source calls, with JavaScript's   *)
(* 0-based indices and its -1 / NaN / undefined results.                   *)
(***************************************************************************)
\* null where a string is expected, and where a number is expected
NullStr == <<"null">>
NullNum == [t |-> "null"]

\* undefined where a string is expected (no string: its element is no character)
UNDEFINED == <<"undefined">>

\* JavaScript number values: an integer, NaN, or undefined where a number is
\* expected
Num(n) == [t |-> "number", v |-> n]
NaN == [t |-> "NaN"]
UndefinedNum == [t |-> "undefined"]

IsNum(x) == x.t = "number"

\* ToInteger(x) of the String methods: NaN and undefined count as 0
ToInteger(x) == IF IsNum(x) THEN x.v ELSE 0

\* a + b: NaN when either operand is NaN or undefined
Plus(a, b) == IF IsNum(a) /\ IsNum(b) THEN Num(a.v + b.v) ELSE NaN

Min(a, b) == IF a < b THEN a ELSE b
Max(a, b) == IF a > b THEN a ELSE b

\* String.prototype.startsWith(p)
StartsWith(s, p) ==
    /\ Len(p) <= Len(s)
    /\ SubSeq(s, 1, Len(p)) = p

\* String.prototype.indexOf(p): 0-based index of the first occurrence, or -1
IndexOf(s, p) ==
    LET hits == {i \in 0..(Len(s) - Len(p)) : SubSeq(s, i + 1, i + Len(p)) = p}
    IN  IF hits = {} THEN -1 ELSE CHOOSE i \in hits : \A k \in hits : i <= k

\* String.prototype.lastIndexOf(p): 0-based index of the last occurrence, or -1
LastIndexOf(s, p) ==
    LET hits == {i \in 0..(Len(s) - Len(p)) : SubSeq(s, i + 1, i + Len(p)) = p}
    IN  IF hits = {} THEN -1 ELSE CHOOSE i \in hits : \A k \in hits : i >= k

\* an index argument of substring, clamped to 0..length
ClampIndex(x, n) == Max(0, Min(x, n))

\* String.prototype.substring(a, b): arguments clamped, swapped when a > b
Substring(s, a, b) ==
    LET ca == ClampIndex(a, Len(s))
        cb == ClampIndex(b, Len(s))
    IN  SubSeq(s, Min(ca, cb) + 1, Max(ca, cb))

\* String.prototype.substring(a): to the end of the string
SubstringFrom(s, a) == SubSeq(s, ClampIndex(a, Len(s)) + 1, Len(s))

WhiteSpace == {" ", "\n", "\t"}

\* String.prototype.trim()
RECURSIVE TrimStart(_)
TrimStart(s) ==
    IF s # <<>> /\ Head(s) \in WhiteSpace THEN TrimStart(Tail(s)) ELSE s

RECURSIVE TrimEnd(_)
TrimEnd(s) ==
    IF s # <<>> /\ s[Len(s)] \in WhiteSpace
    THEN TrimEnd(SubSeq(s, 1, Len(s) - 1)) ELSE s

Trim(s) == TrimEnd(TrimStart(s))

\* String.prototype.split(c) for a one-character separator: a sequence of
\* strings, never empty (<<"">> for the empty string)
RECURSIVE Split(_, _)
Split(s, c) ==
    LET i == IndexOf(s, <<c>>)
    IN  IF i = -1 THEN <<s>>
        ELSE <<SubSeq(s, 1, i)>> \o Split(SubSeq(s, i + 2, Len(s)), c)

\* Array indexing a[i] with a 0-based index: undefined outside the array
At(a, i) == IF 0 <= i /\ i < Len(a) THEN a[i + 1] ELSE UNDEFINED

\* a[x] for a JavaScript number x: undefined for NaN and undefined too
AtNum(a, x) == IF IsNum(x) THEN At(a, x.v) ELSE UNDEFINED

Digits == <<"0", "1", "2", "3", "4", "5", "6", "7", "8", "9">>

DigitValue(c) == (CHOOSE i \in 1..10 : Digits[i] = c) - 1

IsDigit(c) == \E i \in 1..10 : Digits[i] = c

\* the value of the longest prefix of s made of decimal digits, given the
\* value acc of the digits already read
RECURSIVE DigitsValue(_, _)
DigitsValue(s, acc) ==
    IF s # <<>> /\ IsDigit(Head(s))
    THEN DigitsValue(Tail(s), 10 * acc + DigitValue(Head(s)))
    ELSE acc

\* parseInt(s, 10): leading white space skipped, an optional sign, then the
\* longest run of digits; NaN when there is no digit
ParseInt(s) ==
    LET t == TrimStart(s)
        neg == t # <<>> /\ Head(t) = "-"
        u == IF t # <<>> /\ Head(t) \in {"-", "+"} THEN Tail(t) ELSE t
    IN  IF u = <<>> \/ ~IsDigit(Head(u)) THEN NaN
        ELSE IF neg THEN Num(0 - DigitsValue(u, 0)) ELSE Num(DigitsValue(u, 0))

\* JSON.parse of a wire field, for the numerals the model's responses carry
JSONParse(s) == ParseInt(s)

(***************************************************************************)
(* String literals of the source.                                          *)
(***************************************************************************)
NotFoundPrompt == <<"N", "o", "t", " ", "f", "o", "u", "n", "d", ":">>
SyntaxErrorPrompt == <<"S", "y", "n", "t", "a", "x", " ", "e", "r", "r", "o", "r", ":">>
DefaultQuery == <<"S", "E", "L", "E", "C", "T", " ", "*", " ", "F", "R", "O", "M", " ", "*">>


(***************************************************************************)
(* The diagnostic parser: handleSyntaxError and handleNotFound as          *)
(* functions of the error text and the editor text.  The result is         *)
(*   [kind |-> "return"]   the early return: the markers are left alone,   *)
(*   [kind |-> "throw"]    a TypeError (the async method's promise is      *)
(*                         rejected): the markers are left alone,          *)
(*   [kind |-> "set", markers |-> m]  setModelMarkers(model, 'owner', m).  *)
(***************************************************************************)
Return == [kind |-> "return"]
Throw == [kind |-> "throw"]
SetMarkers(m) == [kind |-> "set", markers |-> m]

Marker(line, startPos, endPos, body) ==
    [startLineNumber |-> line, endLineNumber |-> line,
     startColumn |-> startPos, endColumn |-> endPos,
     message |-> body, severity |-> "Error"]

\* the last element of a non-empty array: Array.prototype.pop()
Pop(a) == a[Len(a)]

\* the for loop of handleNotFound leaving at the first line with errStr
LastLineWith_First(texts, errStr) ==
    LET hits == {i \in 0..(Len(texts) - 1) : IndexOf(texts[i + 1], errStr) # -1}
    IN  IF hits = {} THEN -1 ELSE CHOOSE i \in hits : \A k \in hits : i <= k

\* the for loop of handleNotFound: the greatest 0-based i with errStr in
\* texts[i], or -1
LastLineWith(texts, errStr) ==
    LET hits == {i \in 0..(Len(texts) - 1) : IndexOf(texts[i + 1], errStr) # -1}
    IN  IF hits = {} THEN -1 ELSE CHOOSE i \in hits : \A k \in hits : i >= k

\* handleNotFound taking the part of the name after its last dot as errStr
handleNotFound_LastDot(resp, value) ==
    LET response == Trim(resp)
        token == At(Split(response, " "), 3)
        errStr == Pop(Split(Pop(Split(token, ":")), "."))
        texts == Split(value, "\n")
        i == LastLineWith(texts, errStr)
        line == IF i = -1 THEN -1 ELSE i + 1
        pos == IF i = -1 THEN -1 ELSE IndexOf(texts[i + 1], errStr)
    IN  IF ~StartsWith(response, NotFoundPrompt) THEN Return
        ELSE IF token = UNDEFINED THEN Throw
        ELSE SetMarkers(<<Marker(Num(line), Num(pos), Num(pos + Len(errStr)),
                                 response)>>)

\* handleNotFound without the test of the prompt
handleNotFound_NoPromptTest(resp, value) ==
    LET response == Trim(resp)
        token == At(Split(response, " "), 3)
        errStr == Pop(Split(token, ":"))
        texts == Split(value, "\n")
        i == LastLineWith(texts, errStr)
        line == IF i = -1 THEN -1 ELSE i + 1
        pos == IF i = -1 THEN -1 ELSE IndexOf(texts[i + 1], errStr)
    IN  IF token = UNDEFINED THEN Throw
        ELSE SetMarkers(<<Marker(Num(line), Num(pos), Num(pos + Len(errStr)),
                                 response)>>)

handleNotFound(resp, value) ==
    LET response == Trim(resp)
        token == At(Split(response, " "), 3)
        errStr == Pop(Split(token, ":"))
        texts == Split(value, "\n")
        i == LastLineWith(texts, errStr)
        line == IF i = -1 THEN -1 ELSE i + 1
        pos == IF i = -1 THEN -1 ELSE IndexOf(texts[i + 1], errStr)
    IN  IF ~StartsWith(response, NotFoundPrompt) THEN Return
        ELSE IF token = UNDEFINED THEN Throw
        ELSE SetMarkers(<<Marker(Num(line), Num(pos), Num(pos + Len(errStr)),
                                 response)>>)

\* handleSyntaxError with endPos the 0-based index of the space
handleSyntaxError_NoPlusOne(resp, value) ==
    LET response == Trim(resp)
        body == Substring(response, Len(SyntaxErrorPrompt),
                          LastIndexOf(response, <<"a", "t">>))
        posStr == Substring(response, LastIndexOf(response, <<"[">>) + 1,
                            LastIndexOf(response, <<"]">>))
        parts == Split(posStr, ":")
        line == ParseInt(parts[1])
        pos == IF Len(parts) >= 2 THEN ParseInt(parts[2]) ELSE UndefinedNum
        text == AtNum(Split(value, "\n"), Plus(line, Num(-1)))
        errLen == IndexOf(SubstringFrom(text, ToInteger(pos)), <<" ">>)
        endPos == IF errLen # -1 THEN Plus(Num(errLen), pos)
                  ELSE Num(Len(text) + 1)
    IN  IF ~StartsWith(response, SyntaxErrorPrompt) THEN Return
        ELSE IF text = UNDEFINED THEN Throw
        ELSE SetMarkers(<<Marker(line, pos, endPos, body)>>)

handleSyntaxError(resp, value) ==
    LET response == Trim(resp)
        body == Substring(response, Len(SyntaxErrorPrompt),
                          LastIndexOf(response, <<"a", "t">>))
        posStr == Substring(response, LastIndexOf(response, <<"[">>) + 1,
                            LastIndexOf(response, <<"]">>))
        parts == Split(posStr, ":")
        line == ParseInt(parts[1])
        pos == IF Len(parts) >= 2 THEN ParseInt(parts[2]) ELSE UndefinedNum
        text == AtNum(Split(value, "\n"), Plus(line, Num(-1)))
        errLen == IndexOf(SubstringFrom(text, ToInteger(pos)), <<" ">>)
        endPos == IF errLen # -1 THEN Plus(Plus(Num(errLen), pos), Num(1))
                  ELSE Num(Len(text) + 1)
    IN  IF ~StartsWith(response, SyntaxErrorPrompt) THEN Return
        ELSE IF text = UNDEFINED THEN Throw
        ELSE SetMarkers(<<Marker(line, pos, endPos, body)>>)

\* the markers after a handler with outcome r
\* setModelMarkers adding to the markers of the owner in place of replacing them
Apply_Append(r, m) == IF r.kind = "set" THEN m \o r.markers ELSE m

Apply(r, m) == IF r.kind = "set" THEN r.markers ELSE m


(***************************************************************************)
(* Inputs: the editor texts the user produces, the error texts and the     *)
(* pages the backend answers with.                                         *)
(***************************************************************************)
EmptyText == <<>>
TextFrom == <<"S", "E", "L", "E", "C", "T", " ", "a", "\n", "F", "R", "O", "M", " ", "t">>
ErrNotFound == <<"N", "o", "t", " ", "f", "o", "u", "n", "d", ":", " ", "T", "a", "b", "l", "e", " ", "p", ":", "t">>
ErrSyntax == <<"S", "y", "n", "t", "a", "x", " ", "e", "r", "r", "o", "r", ":", " ", "b", "a", "d", " ", "a", "t", " ", "[", "2", ":", "5", "]">>
ErrOther == <<"T", "i", "m", "e", "o", "u", "t">>

\* the iniQuery prop: absent, or a query
IniQueries == {UNDEFINED, TextFrom}

\* the values an edit leaves in the editor
Texts == {EmptyText, DefaultQuery, TextFrom}

\* the response of a dry run's Fail update
ErrorTexts == {ErrNotFound, ErrSyntax, ErrOther}

\* the response of a submitted job's Fail update
JobErrors == {ErrSyntax}

\* the bytesProcessed field of a page on the wire, JSON-encoded
WireBytes == {<<"1", "2">>}


\* editor texts and error texts for the diagnostic parser
TextLines == <<"a", "\n", "b", "b", "\n", "c", "c", "c", " ", "d", "d", "d">>
TextTable == <<"S", "E", "L", "E", "C", "T", " ", "*", "\n", "F", "R", "O", "M", " ", "d", "s", ".", "x", ".", "t", "a", "b", "l", "e">>
TextFullName == <<"S", "E", "L", "E", "C", "T", " ", "*", "\n", "F", "R", "O", "M", " ", "(", "x", ")", ",", " ", "p", "r", "o", "j", "e", "c", "t", ".", "d", "a", "t", "a", "s", "e", "t", ".", "t", "a", "b", "l", "e">>
TextRepeat == <<"t", " ", "t", "\n", "x", "\n", "a", "t", " ", "t">>
TextWord == <<"x">>
TextTwice == <<"z", "z", " ", "z", "z", "\n", "z", "z">>
TextKeyword == <<"F", "R", "O", "M", " ", "F", "R", "O", "M">>
TextShort == <<"t">>
TextSpaces == <<"a", " ", "b", " ", "c", "\n", "d", " ", "e">>
TextBlankLine == <<"x", "\n", "\n", "t">>
ErrBadToken35 == <<"S", "y", "n", "t", "a", "x", " ", "e", "r", "r", "o", "r", ":", " ", "b", "a", "d", " ", "t", "o", "k", "e", "n", " ", "a", "t", " ", "[", "3", ":", "5", "]">>
ErrBadToken31 == <<"S", "y", "n", "t", "a", "x", " ", "e", "r", "r", "o", "r", ":", " ", "b", "a", "d", " ", "t", "o", "k", "e", "n", " ", "a", "t", " ", "[", "3", ":", "1", "]">>
ErrFirstRow == <<"S", "y", "n", "t", "a", "x", " ", "e", "r", "r", "o", "r", ":", " ", "x", " ", "a", "t", " ", "[", "1", ":", "0", "]">>
ErrNoLocator == <<"S", "y", "n", "t", "a", "x", " ", "e", "r", "r", "o", "r", ":", " ", "b", "a", "d", " ", "t", "o", "k", "e", "n">>
ErrRowOutside == <<"S", "y", "n", "t", "a", "x", " ", "e", "r", "r", "o", "r", ":", " ", "b", "a", "d", " ", "t", "o", "k", "e", "n", " ", "a", "t", " ", "[", "9", ":", "1", "]">>
ErrDotted == <<"N", "o", "t", " ", "f", "o", "u", "n", "d", ":", " ", "T", "a", "b", "l", "e", " ", "p", "r", "o", "j", "e", "c", "t", ".", "d", "a", "t", "a", "s", "e", "t", ".", "t", "a", "b", "l", "e">>
ErrShort == <<"N", "o", "t", " ", "f", "o", "u", "n", "d", ":", " ", "x">>
ErrAbsent == <<"N", "o", "t", " ", "f", "o", "u", "n", "d", ":", " ", "D", "a", "t", "a", "s", "e", "t", " ", "p", ":", "z", "z">>
ErrKeyword == <<"N", "o", "t", " ", "f", "o", "u", "n", "d", ":", " ", "J", "o", "b", " ", "p", ":", "F", "R", "O", "M">>
ErrLeadingSpace == <<" ", "N", "o", "t", " ", "f", "o", "u", "n", "d", ":", " ", "T", "a", "b", "l", "e", " ", "p", ":", "t">>
ErrInside == <<"E", "r", "r", "o", "r", ":", " ", "N", "o", "t", " ", "f", "o", "u", "n", "d", ":", " ", "T", "a", "b", "l", "e", " ", "p", ":", "t">>
ErrEmpty == <<>>

\* the iniQuery props and the dry-run responses the parser is applied to
ParseTexts ==
    {DefaultQuery, TextFrom, TextLines, TextTable, TextFullName, TextRepeat,
     TextWord, TextTwice, TextKeyword, TextShort, TextSpaces, TextBlankLine}
ParseErrors == ErrorTexts \cup
    {ErrBadToken35, ErrBadToken31, ErrFirstRow, ErrNoLocator,
     ErrRowOutside, ErrDotted, ErrShort, ErrAbsent,
     ErrKeyword, ErrLeadingSpace, ErrInside, ErrEmpty}

\* the parser's outcomes on the model's inputs, computed once
SyntaxOutcome ==
    [e \in ParseErrors, v \in Texts \cup ParseTexts |-> handleSyntaxError(e, v)]
NotFoundOutcome ==
    [e \in ParseErrors, v \in Texts \cup ParseTexts |-> handleNotFound(e, v)]

\* enum ButtonStates
READY == "READY"
PENDING == "PENDING"
ERROR == "ERROR"
ButtonStates == {READY, PENDING, ERROR}

\* this.job before the first request (undefined), this.timeoutAlarm = null
NoJob == 0
NoTimer == 0

JobIds == 1..MaxInputs
TimerIds == 1..MaxInputs

\* the id of the mount-time dry run; a debounce firing's dry run carries the
\* id of its timer
MountCheck == 0

VARIABLES
    buttonState,      \* this.state.buttonState
    bytesProcessed,   \* this.state.bytesProcessed
    errorMsg,         \* this.state.errorMsg
    job,              \* this.job: the handle returned by the last request
    timeoutAlarm,     \* this.timeoutAlarm: the id of the last debounce timer
    editor,           \* this.editor: "unset" until the editor has mounted, "disposed"
                      \* once the component has unmounted
    value,            \* the editor's text: editor.getValue()
    markers,          \* the editor's markers of owner 'owner'
    store,            \* the result store's entry for this.queryId
    jobs,             \* polling client: status of every submitted job
    pages,            \* polling client: pages delivered so far
    validations,      \* polling client: dry runs awaiting their response
    resetTimers,      \* event loop: armed auto-reset timers, by arming job
    timers,           \* event loop: armed debounce timers
    edits,            \* number of edits so far: the id of the last timer
    cancelIssued,     \* history: jobs whose cancel the controller asked for
    burst,            \* history: the edits and dry runs of the latest burst
    raised            \* history: the handler of the last step threw

stateVars == <<buttonState, bytesProcessed, errorMsg>>
jobVars == <<job, store, jobs, pages, resetTimers, cancelIssued>>
editVars == <<timeoutAlarm, value, markers, validations, timers, edits,
              burst>>
vars == <<stateVars, jobVars, editVars, editor, raised>>

\* a burst: its edits so far, the queries of the dry runs its timers issued,
\* the text as of its last edit, and whether a timer of it is still armed
NoBurst == [edits |-> 0, requests |-> <<>>, final |-> EmptyText, open |-> FALSE]

\* the state after the constructor, the iniQuery prop being one of iniQueries
Construct(iniQueries) ==
    /\ buttonState = READY
    /\ bytesProcessed = NullNum
    /\ errorMsg = NullStr
    /\ job = NoJob
    /\ timeoutAlarm = NoTimer
    /\ editor = "unset"
    /\ \E iniQuery \in iniQueries :
        value = IF iniQuery # UNDEFINED THEN iniQuery ELSE DefaultQuery
    /\ markers = <<>>
    /\ store = [t |-> "absent"]
    /\ jobs = [j \in JobIds |-> "unissued"]
    /\ pages = 0
    /\ validations = {}
    /\ resetTimers = {}
    /\ timers = {}
    /\ edits = 0
    /\ cancelIssued = {}
    /\ burst = NoBurst
    /\ raised = FALSE

Init == Construct(IniQueries)


(***************************************************************************)
(* Collaborators, modelled from their contract.                            *)
(*                                                                         *)
(* Polling client: request(body, onUpdate, interval) returns a handle and  *)
(* starts polling; onUpdate is called for each page (Pending) and once     *)
(* for the end of the job (Done or Fail), after which no update follows;   *)
(* handle.cancel() stops the polling and suppresses every later onUpdate,  *)
(* and is safe after completion and when repeated.                         *)
(*                                                                         *)
(* Result store: resetQueryResult clears the entry's result and keeps the  *)
(* entry, updateQueryResult replaces the result, deleteQueryEntry removes  *)
(* the entry.                                                              *)
(***************************************************************************)
Unissued == {j \in JobIds : jobs[j] = "unissued"}

\* the handle the next request returns
NewJob == CHOOSE j \in Unissued : \A k \in Unissued : j <= k

PagedRequest(js, j) == [js EXCEPT ![j] = "polling"]

PagedCancel(js, j) ==
    [js EXCEPT ![j] = IF @ = "polling" THEN "cancelled" ELSE @]

\* onUpdate is called only for a job that is polling
Delivers(j) == jobs[j] = "polling"

Outstanding == {j \in JobIds : jobs[j] = "polling"}

\* the inputs made so far: requests submitted and edits
Inputs == Cardinality(JobIds \ Unissued) + edits

resetQueryResult == [t |-> "empty"]

updateQueryResult(result) == [t |-> "result", result |-> result]

deleteQueryEntry == [t |-> "absent"]

(***************************************************************************)
(* Job lifecycle controller.                                               *)
(***************************************************************************)
\* this.setState of a field: once the component has unmounted the update is
\* dropped and the field keeps its value
SetState(new, old) == IF editor = "disposed" THEN old ELSE new

handleQuery ==
    /\ Inputs < MaxInputs
    /\ store' = resetQueryResult
    /\ buttonState' = PENDING
    /\ bytesProcessed' = NullNum
    /\ errorMsg' = NullStr
    /\ job' = NewJob
    /\ jobs' = PagedRequest(jobs, NewJob)
    /\ raised' = FALSE
    /\ UNCHANGED <<pages, resetTimers, cancelIssued, editVars, editor>>

\* handleCancel with the call of job.cancel() lost
handleCancel_NoCall ==
    /\ cancelIssued' = IF job # NoJob THEN cancelIssued \cup {job}
                       ELSE cancelIssued
    /\ raised' = FALSE
    /\ UNCHANGED <<stateVars, job, store, jobs, pages, resetTimers, editVars,
                   editor>>

\* handleCancel without the test of this.job: cancel of undefined throws
handleCancel_NoGuard ==
    /\ IF job # NoJob
       THEN /\ jobs' = PagedCancel(jobs, job)
            /\ cancelIssued' = cancelIssued \cup {job}
            /\ raised' = FALSE
       ELSE /\ raised' = TRUE
            /\ UNCHANGED <<jobs, cancelIssued>>
    /\ UNCHANGED <<stateVars, job, store, pages, resetTimers, editVars, editor>>

handleCancel ==
    /\ IF job # NoJob
       THEN /\ jobs' = PagedCancel(jobs, job)
            /\ cancelIssued' = cancelIssued \cup {job}
       ELSE UNCHANGED <<jobs, cancelIssued>>
    /\ raised' = FALSE
    /\ UNCHANGED <<stateVars, job, store, pages, resetTimers, editVars, editor>>

\* handleButtonClick with the PENDING case lost: every press submits
handleButtonClick_AlwaysQuery ==
    /\ editor = "mounted"
    /\ handleQuery

\* a press of the button; the button is pressed once the editor has mounted
handleButtonClick ==
    /\ editor = "mounted"
    /\ CASE buttonState \in {READY, ERROR} -> handleQuery
         [] buttonState = PENDING -> handleCancel

\* onUpdate(JobState.Pending, _, response) of job j: a page, its fields
\* JSON-encoded; the page's rows and labels are carried by its ordinal
OnPending(j, wire) ==
    /\ Delivers(j)
    /\ pages < MaxPages
    /\ pages' = pages + 1
    /\ bytesProcessed' = SetState(JSONParse(wire), bytesProcessed)
    /\ store' = updateQueryResult([job |-> j, page |-> pages + 1,
                                   bytesProcessed |-> JSONParse(wire)])
    /\ raised' = FALSE
    /\ UNCHANGED <<buttonState, errorMsg, job, jobs, resetTimers,
                   cancelIssued, editVars, editor>>

\* the Fail update with the setTimeout lost: nothing resets the button
OnFail_NoTimer(j, response) ==
    /\ Delivers(j)
    /\ jobs' = [jobs EXCEPT ![j] = "failed"]
    /\ buttonState' = SetState(ERROR, buttonState)
    /\ errorMsg' = SetState(response, errorMsg)
    /\ raised' = FALSE
    /\ UNCHANGED <<bytesProcessed, job, store, pages, resetTimers,
                   cancelIssued, editVars, editor>>

\* onUpdate(JobState.Fail, _, response) of job j
OnFail(j, response) ==
    /\ Delivers(j)
    /\ jobs' = [jobs EXCEPT ![j] = "failed"]
    /\ buttonState' = SetState(ERROR, buttonState)
    /\ errorMsg' = SetState(response, errorMsg)
    /\ resetTimers' = resetTimers \cup {j}
    /\ raised' = FALSE
    /\ UNCHANGED <<bytesProcessed, job, store, pages, cancelIssued,
                   editVars, editor>>

\* onUpdate(JobState.Done) of job j
OnDone(j) ==
    /\ Delivers(j)
    /\ jobs' = [jobs EXCEPT ![j] = "done"]
    /\ buttonState' = SetState(READY, buttonState)
    /\ raised' = FALSE
    /\ UNCHANGED <<bytesProcessed, errorMsg, job, store, pages, resetTimers,
                   cancelIssued, editVars, editor>>

\* the callback of the timer that the Fail update of job j armed
ResetTimerFire(j) ==
    /\ j \in resetTimers
    /\ resetTimers' = resetTimers \ {j}
    /\ buttonState' = SetState(READY, buttonState)
    /\ raised' = FALSE
    /\ UNCHANGED <<bytesProcessed, errorMsg, job, store, jobs, pages,
                   cancelIssued, editVars, editor>>

\* componentWillUnmount: the store entry of this editor is deleted; the
\* editor widget is disposed with the component, so what follows in the model
\* is the job's callbacks and the reset timers only
componentWillUnmount ==
    /\ editor # "disposed"
    /\ editor' = "disposed"
    /\ store' = deleteQueryEntry
    /\ raised' = FALSE
    /\ UNCHANGED <<stateVars, job, jobs, pages, resetTimers, cancelIssued,
                   editVars>>

(***************************************************************************)
(* Debounced validator.                                                    *)
(***************************************************************************)
\* checkSQL without the test of an empty query
checkSQL_NoEmptyTest(id) == validations \cup {[id |-> id, query |-> value]}

\* checkSQL: the dry runs in flight after it, id being the new request's id
checkSQL(id) ==
    IF value = EmptyText THEN validations
    ELSE validations \cup {[id |-> id, query |-> value]}

handleEditorDidMount ==
    /\ editor = "unset"
    /\ editor' = "mounted"
    /\ validations' = checkSQL(MountCheck)
    /\ raised' = FALSE
    /\ UNCHANGED <<stateVars, jobVars, timeoutAlarm, value, markers, timers,
                   edits, burst>>

\* the onKeyUp handler with clearTimeout lost: the earlier timer stays armed
KeyUp_NoClear(v) ==
    /\ editor = "mounted"
    /\ Inputs < MaxInputs
    /\ value' = v
    /\ edits' = edits + 1
    /\ timers' = timers \cup {edits + 1}
    /\ errorMsg' = IF timeoutAlarm # NoTimer THEN NullStr ELSE errorMsg
    /\ timeoutAlarm' = edits + 1
    /\ markers' = <<>>
    /\ burst' = IF burst.open
                THEN [burst EXCEPT !.edits = @ + 1, !.final = v]
                ELSE [edits |-> 1, requests |-> <<>>, final |-> v, open |-> TRUE]
    /\ raised' = FALSE
    /\ UNCHANGED <<buttonState, bytesProcessed, jobVars, validations, editor>>

\* an edit: the editor's text becomes v and the onKeyUp handler runs
KeyUp(v) ==
    /\ editor = "mounted"
    /\ Inputs < MaxInputs
    /\ value' = v
    /\ edits' = edits + 1
    /\ IF timeoutAlarm # NoTimer
       THEN /\ timers' = (timers \ {timeoutAlarm}) \cup {edits + 1}
            /\ errorMsg' = NullStr
       ELSE /\ timers' = timers \cup {edits + 1}
            /\ UNCHANGED errorMsg
    /\ timeoutAlarm' = edits + 1
    /\ markers' = <<>>
    /\ burst' = IF burst.open
                THEN [burst EXCEPT !.edits = @ + 1, !.final = v]
                ELSE [edits |-> 1, requests |-> <<>>, final |-> v, open |-> TRUE]
    /\ raised' = FALSE
    /\ UNCHANGED <<buttonState, bytesProcessed, jobVars, validations, editor>>

\* the debounce timer t fires: checkSQL
DebounceFire(t) ==
    /\ editor = "mounted"
    /\ t \in timers
    /\ timers' = timers \ {t}
    /\ validations' = checkSQL(t)
    /\ burst' = [burst EXCEPT
                    !.requests = IF value = EmptyText THEN @ ELSE Append(@, value),
                    !.open = (timers' # {})]
    /\ raised' = FALSE
    /\ UNCHANGED <<stateVars, jobVars, timeoutAlarm, value, markers, edits,
                   editor>>

\* the Fail update of dry run d: both handlers run on the response
OnCheckFail(d, response) ==
    /\ editor = "mounted"
    /\ d \in validations
    /\ validations' = validations \ {d}
    /\ LET syntax == SyntaxOutcome[response, value]
           notFound == NotFoundOutcome[response, value]
       IN  /\ markers' = Apply(notFound, Apply(syntax, markers))
           /\ raised' = (syntax.kind = "throw" \/ notFound.kind = "throw")
    /\ UNCHANGED <<stateVars, jobVars, timeoutAlarm, value, timers, edits,
                   burst, editor>>

\* the Done update of dry run d: ignored
OnCheckDone(d) ==
    /\ editor = "mounted"
    /\ d \in validations
    /\ validations' = validations \ {d}
    /\ raised' = FALSE
    /\ UNCHANGED <<stateVars, jobVars, timeoutAlarm, value, markers, timers,
                   edits, burst, editor>>

Next ==
    \/ handleButtonClick
    \/ \E j \in JobIds, wire \in WireBytes : OnPending(j, wire)
    \/ \E j \in JobIds, response \in JobErrors : OnFail(j, response)
    \/ \E j \in JobIds : OnDone(j)
    \/ \E j \in JobIds : ResetTimerFire(j)
    \/ componentWillUnmount
    \/ handleEditorDidMount
    \/ \E v \in Texts : KeyUp(v)
    \/ \E t \in TimerIds : DebounceFire(t)
    \/ \E d \in validations, response \in ErrorTexts : OnCheckFail(d, response)
    \/ \E d \in validations : OnCheckDone(d)

Spec == Init /\ [][Next]_vars


\* the contract operation cancel() called directly, besides the button
NextCancel ==
    \/ Next
    \/ handleCancel

SpecCancel == Init /\ [][NextCancel]_vars

\* the job lifecycle controller alone, with the timers of the event loop: a
\* timer that setTimeout armed and nothing clears does fire
NextJob ==
    \/ handleButtonClick
    \/ \E j \in JobIds, wire \in WireBytes : OnPending(j, wire)
    \/ \E j \in JobIds, response \in JobErrors : OnFail(j, response)
    \/ \E j \in JobIds : OnDone(j)
    \/ \E j \in JobIds : ResetTimerFire(j)
    \/ componentWillUnmount
    \/ handleEditorDidMount

SpecLive ==
    /\ Init
    /\ [][NextJob]_vars
    /\ \A j \in JobIds : WF_vars(ResetTimerFire(j))

\* the diagnostic parser applied to the response of the dry run at mount,
\* for each editor text and each error text
InitParse == Construct(ParseTexts)

NextParse ==
    \/ handleEditorDidMount
    \/ \E d \in validations, response \in ParseErrors : OnCheckFail(d, response)

SpecParse == InitParse /\ [][NextParse]_vars

(***************************************************************************)
(* Claims.                                                                 *)
(***************************************************************************)
\* what the user sees of the job, and the result store
Observed == <<buttonState, bytesProcessed, errorMsg, store>>

\* an onUpdate call of job j
JobUpdate(j) ==
    \/ \E wire \in WireBytes : OnPending(j, wire)
    \/ \E response \in JobErrors : OnFail(j, response)
    \/ OnDone(j)

\* C1: the auto-reset timer armed by the Fail of a job does not change
\* ButtonState when it fires after a later submit (the job is no longer the
\* one whose handle is held).
C1_StaleTimerKeepsButton ==
    [][\A j \in JobIds :
        (ResetTimerFire(j) /\ j # job) => buttonState' = buttonState]_vars

\* C2: a press of the button while ButtonState is Pending and a handle is
\* held (the cancel) leaves ButtonState Ready in the same step.
C2_CancelMakesReady ==
    [][(handleButtonClick /\ buttonState = PENDING /\ job # NoJob)
        => buttonState' = READY]_vars

\* C3: at most one submitted job is outstanding (issued and neither done,
\* failed nor cancelled) at any time.
C3_OneOutstandingJob == Cardinality(Outstanding) <= 1

C5_OneDryRunPerBurst ==
    (burst.edits >= 2 /\ ~burst.open) => burst.requests = <<burst.final>>

\* C5, amended: such a burst ends with exactly one dry run issued, its query
\* the text as of the last edit, when that text is not empty, and with none
\* issued when it is empty.
C5_OneDryRunPerBurstUnlessEmpty ==
    (burst.edits >= 2 /\ ~burst.open) =>
        burst.requests = IF burst.final = EmptyText THEN <<>>
                         ELSE <<burst.final>>

\* C5 witness: a burst of two edits has ended and its one dry run, for the
\* text of the second edit, is in flight.
C5_Witness ==
    /\ burst.edits = 2
    /\ ~burst.open
    /\ burst.requests = <<value>>
    /\ [id |-> edits, query |-> value] \in validations

\* C6: no two dry runs are in flight together.
C6_OneDryRunInFlight == Cardinality(validations) <= 1

\* C7: the Fail response of a dry run issued before the latest edit puts no
\* marker on the editor: the markers stay as the edit left them.
C7_StaleFailSetsNoMarker ==
    [][\A d \in validations, response \in ErrorTexts :
        (OnCheckFail(d, response) /\ d.id < edits) => markers' = markers]_vars

\* C8: once cancel has been issued for a job, no update of that job changes
\* ButtonState, bytesProcessed, errorMsg or the result store.
C8_NoUpdateAfterCancel ==
    [][\A j \in cancelIssued : JobUpdate(j) => UNCHANGED Observed]_vars

\* C8 witness: cancel was issued for a job that was polling, with a page
\* still to come.
C8_Witness ==
    \E j \in cancelIssued : jobs[j] = "cancelled" /\ pages < MaxPages

\* C9: once a new request has been submitted, no update and no auto-reset
\* timer of an earlier job changes ButtonState, bytesProcessed, errorMsg or
\* the result store.
C9_NoEffectOfEarlierJob ==
    [][\A j \in JobIds :
        (j # job /\ (JobUpdate(j) \/ ResetTimerFire(j)))
            => UNCHANGED Observed]_vars

\* C10: cancel() with no handle held, or with the handle of a job that is
\* done or failed, throws nothing and changes neither ButtonState,
\* bytesProcessed, errorMsg, the result store nor the job.
C10_CancelNoOp ==
    [][(handleCancel /\ (job # NoJob => jobs[job] \in {"done", "failed"}))
        => raised' = FALSE /\ UNCHANGED <<Observed, jobs, resetTimers>>]_vars

\* C10 witness: cancel has been called on the handle of a completed job.
C10_Witness ==
    /\ job \in cancelIssued
    /\ jobs[job] \in {"done", "failed"}


\* C11: when a Fail update has set the button to ERROR a reset timer is armed,
\* and unless the user presses the button or closes the editor the button
\* comes back to READY
C11_ErrorReturnsToReady ==
    /\ [](buttonState = ERROR /\ editor # "disposed" => resetTimers # {})
    /\ (buttonState = ERROR) ~>
           (buttonState \in {READY, PENDING} \/ editor = "disposed")

\* the timer of the failed job has fired and the button is READY again
C11_Witness ==
    /\ editor = "mounted"
    /\ job # NoJob
    /\ jobs[job] = "failed"
    /\ job \notin resetTimers
    /\ buttonState = READY
    /\ errorMsg # NullStr

\* C12: the editor never holds more than one marker, and a Fail update of a
\* dry run whose response yields a diagnostic leaves that diagnostic as the
\* only marker
C12_AtMostOneMarker ==
    [][/\ Len(markers) <= 1
       /\ Len(markers') <= 1
       /\ \A d \in validations, response \in ErrorTexts :
             OnCheckFail(d, response) =>
               LET syntax == SyntaxOutcome[response, value]
                   notFound == NotFoundOutcome[response, value]
               IN  /\ notFound.kind = "set" => markers' = notFound.markers
                   /\ syntax.kind = "set" /\ notFound.kind # "set" =>
                         markers' = syntax.markers]_vars

\* a dry run has failed and left its diagnostic as the marker
C12_Witness ==
    /\ Len(markers) = 1
    /\ value # EmptyText
    /\ ~raised

\* C16: a submit empties the store entry and resets bytesProcessed and
\* errorMsg, and after it no update of an earlier job sets bytesProcessed or
\* errorMsg, which are shown for the job submitted last
C16_SubmitClearsEarlierJob ==
    [][/\ job' # job =>
             /\ store' = resetQueryResult
             /\ bytesProcessed' = NullNum
             /\ errorMsg' = NullStr
       /\ \A j \in JobIds \ {job} :
             JobUpdate(j) => UNCHANGED <<bytesProcessed, errorMsg>>]_vars

\* C18: when the debounce timer fires, or the check at mount runs, on an
\* empty text, no dry run is requested and markers, buttonState and errorMsg
\* keep their values
C18_EmptyTextNoDryRun ==
    [][value = EmptyText
         /\ (handleEditorDidMount \/ \E t \in TimerIds : DebounceFire(t))
       => UNCHANGED <<validations, markers, buttonState, errorMsg>>]_vars

\* the debounce timer of an edit that emptied the text has fired
C18_Witness ==
    /\ value = EmptyText
    /\ burst.edits >= 1
    /\ ~burst.open
    /\ burst.final = EmptyText
    /\ timers = {}

\* C20: once the component has unmounted, the store holds no entry of this
\* editor
C20_NoResultAfterUnmount == editor = "disposed" => store = deleteQueryEntry

\* the lines of an editor text, and the places <<line, offset>> (line from 1,
\* offset from 0) where ident occurs in it
Lines(v) == Split(v, "\n")
Occurrences(v, ident) ==
    UNION {{<<l, o>> : o \in {k \in 0..Len(Lines(v)[l]) :
                        /\ k + Len(ident) <= Len(Lines(v)[l])
                        /\ SubSeq(Lines(v)[l], k + 1, k + Len(ident)) = ident}}
           : l \in 1..Len(Lines(v))}

\* C13: on no error text and no editor text does the diagnostic parser raise
\* an error
C13_ParserTotal == raised = FALSE

\* the names the claims about "Not found: Table project.dataset.table" speak of
IdentTable == <<"t", "a", "b", "l", "e">>
IdentFullName == <<"p", "r", "o", "j", "e", "c", "t", ".", "d", "a", "t", "a", "s", "e", "t", ".", "t", "a", "b", "l", "e">>

\* C14 as stated: on "Not found: Table project.dataset.table", "table" being
\* only in line 2 at offset 10, the marker is at line 2, columns 10 to 15
C14_TableAfterLastDot ==
    [][\A d \in validations :
         OnCheckFail(d, ErrDotted) /\ Occurrences(value, IdentTable) = {<<2, 10>>}
         => /\ Len(markers') = 1
            /\ markers'[1].startLineNumber = Num(2)
            /\ markers'[1].startColumn = Num(10)
            /\ markers'[1].endColumn = Num(15)]_vars

\* C14: on "Not found: Table project.dataset.table" the name sought is the
\* whole token "project.dataset.table"; when it is only in line 2 at offset
\* 10, the marker is at line 2, columns 10 to 31
C14_WholeToken ==
    [][\A d \in validations :
         OnCheckFail(d, ErrDotted)
           /\ Occurrences(value, IdentFullName) = {<<2, 10>>}
         => /\ Len(markers') = 1
            /\ markers'[1].startLineNumber = Num(2)
            /\ markers'[1].startColumn = Num(10)
            /\ markers'[1].endColumn = Num(31)]_vars

\* the marker of the whole name found in line 2 at offset 10
C14_Witness ==
    /\ value = TextFullName
    /\ Len(markers) = 1
    /\ markers[1].message = ErrDotted
    /\ markers[1].startLineNumber = Num(2)
    /\ markers[1].endColumn = Num(31)

\* responses of the form "Syntax error: <msg>at [ROW:COL]": ROW, COL and the
\* text between the prompt and the last "at"
SyntaxCases ==
    {[response |-> ErrBadToken35, row |-> 3, col |-> 5, msg |-> <<" ", "b", "a", "d", " ", "t", "o", "k", "e", "n", " ">>],
     [response |-> ErrBadToken31, row |-> 3, col |-> 1, msg |-> <<" ", "b", "a", "d", " ", "t", "o", "k", "e", "n", " ">>],
     [response |-> ErrFirstRow, row |-> 1, col |-> 0, msg |-> <<" ", "x", " ">>],
     [response |-> ErrSyntax, row |-> 2, col |-> 5, msg |-> <<" ", "b", "a", "d", " ">>]}

\* one more than the offset of the first space at or after offset col in
\* text, or the length of text + 1 when there is none
EndColumn(text, col) ==
    LET spaces == {i \in col..(Len(text) - 1) : text[i + 1] = " "}
    IN  IF spaces = {} THEN Len(text) + 1
        ELSE 1 + CHOOSE i \in spaces : \A k \in spaces : i <= k

\* C15 as stated: the marker of "Syntax error: <msg>at [ROW:COL]" is at line
\* ROW from column COL to the first space after it, its message the text
\* after the prompt and its space ("bad token ")
C15_MessageWithoutSpace ==
    [][\A d \in validations, c \in SyntaxCases :
         OnCheckFail(d, c.response) /\ c.row <= Len(Lines(value))
         => markers' = <<Marker(Num(c.row), Num(c.col),
                                Num(EndColumn(Lines(value)[c.row], c.col)),
                                Tail(c.msg))>>]_vars

\* C15: the marker of "Syntax error: <msg>at [ROW:COL]", ROW being a line of
\* the text, is at line ROW from column COL to the first space after it, its
\* message the text between the prompt and the last "at" (" bad token ")
C15_MessageAfterPrompt ==
    [][\A d \in validations, c \in SyntaxCases :
         OnCheckFail(d, c.response) /\ c.row <= Len(Lines(value))
         => markers' = <<Marker(Num(c.row), Num(c.col),
                                Num(EndColumn(Lines(value)[c.row], c.col)),
                                c.msg)>>]_vars

\* the marker of "Syntax error: bad token at [3:1]" on "ccc ddd": the space
\* is at offset 3
C15_Witness ==
    /\ value = TextLines
    /\ markers = <<Marker(Num(3), Num(1), Num(4), <<" ", "b", "a", "d", " ", "t", "o", "k", "e", "n", " ">>)>>

\* C17 as stated: a response that starts with neither prompt sets no marker
C17_NoPromptNoMarker ==
    [][\A d \in validations, response \in ParseErrors :
         /\ OnCheckFail(d, response)
         /\ ~StartsWith(response, NotFoundPrompt)
         /\ ~StartsWith(response, SyntaxErrorPrompt)
         => markers' = markers /\ ~raised']_vars

\* C17: a response that, trimmed, starts with neither prompt sets no marker
C17_NoPromptNoMarkerTrimmed ==
    [][\A d \in validations, response \in ParseErrors :
         /\ OnCheckFail(d, response)
         /\ ~StartsWith(Trim(response), NotFoundPrompt)
         /\ ~StartsWith(Trim(response), SyntaxErrorPrompt)
         => markers' = markers /\ ~raised']_vars

\* the dry run at mount has failed and both handlers have returned early
C17_Witness ==
    /\ editor = "mounted"
    /\ edits = 0
    /\ validations = {}
    /\ markers = <<>>
    /\ ~raised

\* C19: the marker of a "Not found:" response is at the last line that holds
\* the name, from the first offset of the name in that line; when no line
\* holds it the marker is at line -1, column -1
C19_LastLineFirstOffset ==
    [][\A d \in validations, response \in ParseErrors :
         LET token == At(Split(Trim(response), " "), 3)
         IN  /\ OnCheckFail(d, response)
             /\ StartsWith(Trim(response), NotFoundPrompt)
             /\ token # UNDEFINED
             => LET occ == Occurrences(value, Pop(Split(token, ":")))
                IN  /\ Len(markers') = 1
                    /\ IF occ = {}
                       THEN /\ markers'[1].startLineNumber = Num(-1)
                            /\ markers'[1].startColumn = Num(-1)
                       ELSE \E p \in occ :
                              /\ \A q \in occ :
                                    q[1] < p[1] \/ (q[1] = p[1] /\ q[2] >= p[2])
                              /\ markers'[1].startLineNumber = Num(p[1])
                              /\ markers'[1].startColumn = Num(p[2])]_vars

\* "t" is in lines 1 and 3 of the text, in line 3 at offsets 1 and 3
C19_Witness ==
    /\ value = TextRepeat
    /\ Len(markers) = 1
    /\ markers[1].message = ErrNotFound
    /\ markers[1].startLineNumber = Num(3)
    /\ markers[1].startColumn = Num(1)

=============================================================================
